---- MODULE Spec2Model ----
(***************************************************************************)
(* A model of lean-checker: the term arena (Environment), its insertion    *)
(* operations, the recursive stringification with its binder stack, and    *)
(* the line parser that drives them (parse_lines).                         *)
(*                                                                         *)
(* A line is the sequence of its whitespace-separated tokens; a token is a *)
(* string.  A Rust panic (assert!, expect, todo!) ends the run with result *)
(* "panic"; a LineError ends it with result "error" and a ParseError.      *)
(***************************************************************************)
EXTENDS Integers, Sequences, FiniteSets, TLC

\* Largest number of lines read from the input.
MaxLines == 3
\* Longest variable-length integer suffix an input line is generated with.
MaxList == 1

VARIABLES names, levels, exprs, decls, line_no, result, error, line, prev, out, calls

vars == <<names, levels, exprs, decls, line_no, result, error, line, prev, out, calls>>

-----------------------------------------------------------------------------
(* Data model: environment.rs                                              *)

\* NameItem::Str / NameItem::Int, and struct Name.
ItemStr(s) == [kind |-> "Str", s |-> s, i |-> 0]
ItemInt(i) == [kind |-> "Int", s |-> "", i |-> i]
Name(item, parent) == [item |-> item, parent |-> parent]

LevelZero == [kind |-> "Zero", a |-> 0, b |-> 0]
LevelSucc(u) == [kind |-> "Succ", a |-> u, b |-> 0]
LevelMax(u1, u2) == [kind |-> "Max", a |-> u1, b |-> u2]
LevelIMax(u1, u2) == [kind |-> "IMax", a |-> u1, b |-> u2]
LevelParam(n) == [kind |-> "Param", a |-> n, b |-> 0]

ExprBoundVar(i) == [kind |-> "BoundVar", info |-> "", n |-> i, a |-> 0, b |-> 0, lvls |-> <<>>]
ExprSort(u) == [kind |-> "Sort", info |-> "", n |-> u, a |-> 0, b |-> 0, lvls |-> <<>>]
ExprConstant(n, lvls) == [kind |-> "Constant", info |-> "", n |-> n, a |-> 0, b |-> 0, lvls |-> lvls]
ExprFunAppl(e1, e2) == [kind |-> "FunAppl", info |-> "", n |-> 0, a |-> e1, b |-> e2, lvls |-> <<>>]
ExprLambda(info, n, e1, e2) == [kind |-> "Lambda", info |-> info, n |-> n, a |-> e1, b |-> e2, lvls |-> <<>>]
ExprPi(info, n, e1, e2) == [kind |-> "Pi", info |-> info, n |-> n, a |-> e1, b |-> e2, lvls |-> <<>>]

DeclDef(e1, e2, level_names) == [kind |-> "Def", params |-> 0, ty |-> e1, body |-> e2, intros |-> <<>>, level_names |-> level_names]
DeclInd(params, e, intros, level_names) == [kind |-> "Ind", params |-> params, ty |-> e, body |-> 0, intros |-> intros, level_names |-> level_names]

\* HashMap::new(), contains_key, insert (insert overwrites an existing key).
EmptyMap == [k \in {} |-> 0]
contains_key(m, k) == k \in DOMAIN m
insert(m, k, v) == [x \in DOMAIN m \cup {k} |-> IF x = k THEN v ELSE m[x]]

\* Environment::new: the four tables, level 0 preset to Zero.
NewEnvironment == [names |-> EmptyMap, levels |-> insert(EmptyMap, 0, LevelZero), exprs |-> EmptyMap, decls |-> EmptyMap]

Env == [names |-> names, levels |-> levels, exprs |-> exprs, decls |-> decls]

has_name(env, idx) == contains_key(env.names, idx)
has_level(env, idx) == contains_key(env.levels, idx)
has_expr(env, idx) == contains_key(env.exprs, idx)

\* The outcome of an add_*: returned normally with the new tables, or panicked
\* (a failed assert!) with the tables as the panic left them.
Returned(env) == [panic |-> FALSE, msg |-> "", env |-> env]
Panicked(env, msg) == [panic |-> TRUE, msg |-> msg, env |-> env]

AllIn(seq, S) == \A k \in 1..Len(seq) : seq[k] \in S

add_name(env, idx, item, parent) ==
    IF contains_key(env.names, idx) THEN Panicked(env, "assertion failed: !self.names.contains_key(&idx)")
    ELSE IF parent # 0 /\ ~has_name(env, parent) THEN Panicked(env, "assertion failed: self.names.contains_key(&idx)")
    ELSE Returned([env EXCEPT !.names = insert(@, idx, Name(item, parent))])

add_level_succ(env, uidxp, uidx) ==
    IF contains_key(env.levels, uidxp) THEN Panicked(env, "assertion failed: !self.levels.contains_key(&uidxp)")
    ELSE IF ~has_level(env, uidx) THEN Panicked(env, "assertion failed: self.levels.contains_key(&idx)")
    ELSE Returned([env EXCEPT !.levels = insert(@, uidxp, LevelSucc(uidx))])

add_level_max(env, uidxp, uidx1, uidx2) ==
    IF contains_key(env.levels, uidxp) THEN Panicked(env, "assertion failed: !self.levels.contains_key(&uidxp)")
    ELSE IF ~has_level(env, uidx1) \/ ~has_level(env, uidx2) THEN Panicked(env, "assertion failed: self.levels.contains_key(&idx)")
    ELSE Returned([env EXCEPT !.levels = insert(@, uidxp, LevelMax(uidx1, uidx2))])

add_level_imax(env, uidxp, uidx1, uidx2) ==
    IF contains_key(env.levels, uidxp) THEN Panicked(env, "assertion failed: !self.levels.contains_key(&uidxp)")
    ELSE IF ~has_level(env, uidx1) \/ ~has_level(env, uidx2) THEN Panicked(env, "assertion failed: self.levels.contains_key(&idx)")
    ELSE Returned([env EXCEPT !.levels = insert(@, uidxp, LevelIMax(uidx1, uidx2))])

add_level_param(env, uidxp, nidx) ==
    IF contains_key(env.levels, uidxp) THEN Panicked(env, "assertion failed: !self.levels.contains_key(&uidxp)")
    ELSE IF ~has_name(env, nidx) THEN Panicked(env, "assertion failed: self.names.contains_key(&idx)")
    ELSE Returned([env EXCEPT !.levels = insert(@, uidxp, LevelParam(nidx))])

add_expr_sort(env, eidxp, uidx) ==
    IF contains_key(env.exprs, eidxp) THEN Panicked(env, "assertion failed: !self.exprs.contains_key(&eidxp)")
    ELSE IF ~has_level(env, uidx) THEN Panicked(env, "assertion failed: self.levels.contains_key(&idx)")
    ELSE Returned([env EXCEPT !.exprs = insert(@, eidxp, ExprSort(uidx))])

add_expr_bound_var_overwrites(env, eidxp, i) ==
    Returned([env EXCEPT !.exprs = insert(@, eidxp, ExprBoundVar(i))])

add_expr_bound_var(env, eidxp, i) ==
    IF contains_key(env.exprs, eidxp) THEN Panicked(env, "assertion failed: !self.exprs.contains_key(&eidxp)")
    ELSE Returned([env EXCEPT !.exprs = insert(@, eidxp, ExprBoundVar(i))])

add_expr_pi(env, eidxp, info, nidx, eidx1, eidx2) ==
    IF contains_key(env.exprs, eidxp) THEN Panicked(env, "assertion failed: !self.exprs.contains_key(&eidxp)")
    ELSE IF ~has_name(env, nidx) THEN Panicked(env, "assertion failed: self.names.contains_key(&idx)")
    ELSE IF ~has_expr(env, eidx1) \/ ~has_expr(env, eidx2) THEN Panicked(env, "assertion failed: self.exprs.contains_key(&idx)")
    ELSE Returned([env EXCEPT !.exprs = insert(@, eidxp, ExprPi(info, nidx, eidx1, eidx2))])

add_expr_lambda(env, eidxp, info, nidx, eidx1, eidx2) ==
    IF contains_key(env.exprs, eidxp) THEN Panicked(env, "assertion failed: !self.exprs.contains_key(&eidxp)")
    ELSE IF ~has_name(env, nidx) THEN Panicked(env, "assertion failed: self.names.contains_key(&idx)")
    ELSE IF ~has_expr(env, eidx1) \/ ~has_expr(env, eidx2) THEN Panicked(env, "assertion failed: self.exprs.contains_key(&idx)")
    ELSE Returned([env EXCEPT !.exprs = insert(@, eidxp, ExprLambda(info, nidx, eidx1, eidx2))])

add_expr_constant(env, eidxp, nidx, level_idxs) ==
    IF contains_key(env.exprs, eidxp) THEN Panicked(env, "assertion failed: !self.exprs.contains_key(&eidxp)")
    ELSE IF ~has_name(env, nidx) THEN Panicked(env, "assertion failed: self.names.contains_key(&idx)")
    ELSE IF ~AllIn(level_idxs, DOMAIN env.levels) THEN Panicked(env, "assertion failed: self.levels.contains_key(&idx)")
    ELSE Returned([env EXCEPT !.exprs = insert(@, eidxp, ExprConstant(nidx, level_idxs))])

add_expr_funappl(env, eidxp, eidx1, eidx2) ==
    IF contains_key(env.exprs, eidxp) THEN Panicked(env, "assertion failed: !self.exprs.contains_key(&eidxp)")
    ELSE IF ~has_expr(env, eidx1) \/ ~has_expr(env, eidx2) THEN Panicked(env, "assertion failed: self.exprs.contains_key(&idx)")
    ELSE Returned([env EXCEPT !.exprs = insert(@, eidxp, ExprFunAppl(eidx1, eidx2))])

add_definition(env, nidx, eidx1, eidx2, level_names) ==
    IF contains_key(env.decls, nidx) THEN Panicked(env, "assertion failed: !self.decls.contains_key(&nidx)")
    ELSE IF ~has_name(env, nidx) THEN Panicked(env, "assertion failed: self.names.contains_key(&idx)")
    ELSE IF ~has_expr(env, eidx1) \/ ~has_expr(env, eidx2) THEN Panicked(env, "assertion failed: self.exprs.contains_key(&idx)")
    ELSE IF ~AllIn(level_names, DOMAIN env.names) THEN Panicked(env, "assertion failed: self.names.contains_key(&idx)")
    ELSE Returned([env EXCEPT !.decls = insert(@, nidx, DeclDef(eidx1, eidx2, level_names))])

\* The intros loop asserts has_name then has_expr for each pair in turn; every
\* assert precedes the insert, so only whether all of them pass matters.
IntrosOk(env, intros) == \A k \in 1..Len(intros) : has_name(env, intros[k][1]) /\ has_expr(env, intros[k][2])

FirstBadIntroIsName(env, intros) ==
    LET bad == {k \in 1..Len(intros) : ~(has_name(env, intros[k][1]) /\ has_expr(env, intros[k][2]))}
        k0 == CHOOSE k \in bad : \A j \in bad : k <= j
    IN ~has_name(env, intros[k0][1])

add_inductive_overwrites(env, params, nidx, eidx, intros, level_names) ==
    IF ~has_expr(env, eidx) THEN Panicked(env, "assertion failed: self.exprs.contains_key(&idx)")
    ELSE IF ~IntrosOk(env, intros) THEN Panicked(env, "assertion failed: self.names.contains_key(&idx)")
    ELSE IF ~AllIn(level_names, DOMAIN env.names) THEN Panicked(env, "assertion failed: self.names.contains_key(&idx)")
    ELSE Returned([env EXCEPT !.decls = insert(@, nidx, DeclInd(params, eidx, intros, level_names))])

\* add_inductive asserts nothing about nidx being a stored name.
add_inductive(env, params, nidx, eidx, intros, level_names) ==
    IF contains_key(env.decls, nidx) THEN Panicked(env, "assertion failed: !self.decls.contains_key(&nidx)")
    ELSE IF ~has_expr(env, eidx) THEN Panicked(env, "assertion failed: self.exprs.contains_key(&idx)")
    ELSE IF ~IntrosOk(env, intros) THEN Panicked(env, IF FirstBadIntroIsName(env, intros) THEN "assertion failed: self.names.contains_key(&idx)" ELSE "assertion failed: self.exprs.contains_key(&idx)")
    ELSE IF ~AllIn(level_names, DOMAIN env.names) THEN Panicked(env, "assertion failed: self.names.contains_key(&idx)")
    ELSE Returned([env EXCEPT !.decls = insert(@, nidx, DeclInd(params, eidx, intros, level_names))])

-----------------------------------------------------------------------------
(* Stringification: environment.rs                                         *)

Reverse(seq) == [k \in 1..Len(seq) |-> seq[Len(seq) + 1 - k]]

RECURSIVE Join(_, _)
Join(seq, sep) ==
    IF Len(seq) = 0 THEN ""
    ELSE IF Len(seq) = 1 THEN seq[1]
    ELSE seq[1] \o sep \o Join(Tail(seq), sep)

\* impl Display for NameItem
item_to_string(item) == IF item.kind = "Str" THEN item.s ELSE ToString(item.i)

\* The while loop of name_to_string: the items pushed, leaf first, or a
\* panic ("Name not found") at an absent index.
RECURSIVE name_items(_, _)
name_items(env, idx) ==
    IF idx = 0 THEN [panic |-> FALSE, items |-> <<>>]
    ELSE IF ~contains_key(env.names, idx) THEN [panic |-> TRUE, items |-> <<>>]
    ELSE LET item == env.names[idx]
             r == name_items(env, item.parent)
         IN [panic |-> r.panic, items |-> <<item_to_string(item.item)>> \o r.items]

name_to_string(env, name_idx) ==
    LET r == name_items(env, name_idx)
    IN IF r.panic THEN [panic |-> TRUE, s |-> "Name not found"]
       ELSE [panic |-> FALSE, s |-> Join(Reverse(r.items), ".")]

RECURSIVE level_to_string(_, _)
level_to_string_swapped(env, uidx) ==
    IF ~contains_key(env.levels, uidx) THEN [panic |-> TRUE, s |-> "Univ not found"]
    ELSE LET univ == env.levels[uidx] IN
      CASE univ.kind = "Zero" -> [panic |-> FALSE, s |-> "0"]
        [] univ.kind = "Succ" ->
             LET r == level_to_string(env, univ.a)
             IN IF r.panic THEN r ELSE [panic |-> FALSE, s |-> "(succ " \o r.s \o ")"]
        [] univ.kind \in {"Max", "IMax"} ->
             LET r1 == level_to_string(env, univ.a)
                 r2 == level_to_string(env, univ.b)
             IN IF r1.panic THEN r1 ELSE IF r2.panic THEN r2
                ELSE [panic |-> FALSE, s |-> (IF univ.kind = "Max" THEN "(max " ELSE "(imax ") \o r2.s \o " " \o r1.s \o ")"]
        [] univ.kind = "Param" -> name_to_string(env, univ.a)

level_to_string(env, uidx) ==
    IF ~contains_key(env.levels, uidx) THEN [panic |-> TRUE, s |-> "Univ not found"]
    ELSE LET univ == env.levels[uidx] IN
      CASE univ.kind = "Zero" -> [panic |-> FALSE, s |-> "0"]
        [] univ.kind = "Succ" ->
             LET r == level_to_string(env, univ.a)
             IN IF r.panic THEN r ELSE [panic |-> FALSE, s |-> "(succ " \o r.s \o ")"]
        [] univ.kind = "Max" ->
             LET r1 == level_to_string(env, univ.a)
                 r2 == level_to_string(env, univ.b)
             IN IF r1.panic THEN r1 ELSE IF r2.panic THEN r2
                ELSE [panic |-> FALSE, s |-> "(max " \o r1.s \o " " \o r2.s \o ")"]
        [] univ.kind = "IMax" ->
             LET r1 == level_to_string(env, univ.a)
                 r2 == level_to_string(env, univ.b)
             IN IF r1.panic THEN r1 ELSE IF r2.panic THEN r2
                ELSE [panic |-> FALSE, s |-> "(imax " \o r1.s \o " " \o r2.s \o ")"]
        [] univ.kind = "Param" -> name_to_string(env, univ.a)

\* lvls.iter().map(level_to_string).collect(): the strings, or the first panic.
RECURSIVE levels_to_strings(_, _)
levels_to_strings(env, lvls) ==
    IF Len(lvls) = 0 THEN [panic |-> FALSE, s |-> "", items |-> <<>>]
    ELSE LET r == level_to_string(env, Head(lvls)) IN
         IF r.panic THEN [panic |-> TRUE, s |-> r.s, items |-> <<>>]
         ELSE LET rs == levels_to_strings(env, Tail(lvls))
              IN IF rs.panic THEN rs ELSE [panic |-> FALSE, s |-> "", items |-> <<r.s>> \o rs.items]

\* InfoAnnotation::to_delims
to_delims(info) ==
    CASE info = "Default" -> <<"(", ")">>
      [] info = "Implicit" -> <<"{", "}">>
      [] info = "StrictImplicit" -> <<"{{", "}}">>
      [] info = "InstImplicit" -> <<"[", "]">>

\* Vec::push and Vec::pop on the binder stack (pop of an empty Vec is None).
push(var_stack, v) == Append(var_stack, v)
pop_forgotten(var_stack) == var_stack
pop(var_stack) == IF Len(var_stack) = 0 THEN var_stack ELSE SubSeq(var_stack, 1, Len(var_stack) - 1)

\* The BoundVar arm of expr_to_string_help.
bound_var_from_bottom(i, var_stack) ==
    IF i < Len(var_stack) THEN var_stack[i + 1] ELSE "<" \o ToString(i) \o ">"
bound_var_to_string(i, var_stack) ==
    IF i < Len(var_stack) THEN var_stack[Len(var_stack) - i] ELSE "<" \o ToString(i) \o ">"

\* One call of expr_to_string_help as the ghost trace records it: the
\* expression, the binder stack on entry and on return, the string returned,
\* and the direct recursive calls it made, in order, as <<eidx, entry stack>>.
Call(eidx, st_in, st_out, s, kids) == [e |-> eidx, st_in |-> st_in, st_out |-> st_out, s |-> s, kids |-> kids]

HelpPanic(msg, st, tr) == [panic |-> TRUE, s |-> msg, st |-> st, tr |-> tr]
HelpDone(eidx, st_in, st_out, s, kids, tr) == [panic |-> FALSE, s |-> s, st |-> st_out, tr |-> tr \cup {Call(eidx, st_in, st_out, s, kids)}]

\* show_var_stack is false in Environment::new and never set.
show_var_stack == FALSE

\* The end of pi_or_lambda_to_string, the domain rendered as e1 and the body
\* as e2 under the stack pushed: pop, the format!, and the return.
binder_return(eidx, expr, var_stack, var_name, e1, pushed, e2) ==
    IF e2.panic THEN HelpPanic(e2.s, e2.st, e1.tr \cup e2.tr) ELSE
    LET delims == to_delims(expr.info)
        popped == pop(e2.st)
        base == delims[1] \o var_name \o " : " \o e1.s \o delims[2] \o ", " \o e2.s
        text == IF show_var_stack THEN base \o " [" \o Join(popped, ",") \o "]" ELSE base
    IN HelpDone(eidx, var_stack, popped, text, <<<<expr.a, var_stack>>, <<expr.b, pushed>>>>, e1.tr \cup e2.tr)

RECURSIVE expr_to_string_help(_, _, _)
\* The body of the binder, rendered under the stack with var_name pushed.
binder_body(env, eidx, expr, var_stack, var_name, e1, pushed) ==
    binder_return(eidx, expr, var_stack, var_name, e1, pushed, expr_to_string_help(env, expr.b, pushed))

\* var_stack.push(var_name), after the domain was rendered as e1.
binder_push(env, eidx, expr, var_stack, var_name, e1) ==
    IF e1.panic THEN e1 ELSE binder_body(env, eidx, expr, var_stack, var_name, e1, push(e1.st, var_name))

\* pi_or_lambda_to_string, called for exprs[eidx] = Pi or Lambda under var_stack.
pi_or_lambda_to_string(env, eidx, var_stack) ==
    LET expr == env.exprs[eidx]
        var_name == name_to_string(env, expr.n)
    IN IF var_name.panic THEN HelpPanic(var_name.s, var_stack, {})
       ELSE binder_push(env, eidx, expr, var_stack, var_name.s, expr_to_string_help(env, expr.a, var_stack))

\* The FunAppl arm: the function rendered as fst, then the argument as bst
\* under the stack the function's call returned.
funappl_return(eidx, expr, var_stack, fst, bst) ==
    IF bst.panic THEN HelpPanic(bst.s, bst.st, fst.tr \cup bst.tr)
    ELSE HelpDone(eidx, var_stack, bst.st, "(" \o fst.s \o " " \o bst.s \o ")", <<<<expr.a, var_stack>>, <<expr.b, fst.st>>>>, fst.tr \cup bst.tr)

funappl_to_string(env, eidx, expr, var_stack, fst) ==
    IF fst.panic THEN fst ELSE funappl_return(eidx, expr, var_stack, fst, expr_to_string_help(env, expr.b, fst.st))

\* The Sort arm and the Constant arm, on the strings of their level(s) and name.
sort_to_string(eidx, var_stack, r) ==
    IF r.panic THEN HelpPanic(r.s, var_stack, {})
    ELSE HelpDone(eidx, var_stack, var_stack, "Sort " \o r.s, <<>>, {})

constant_to_string(eidx, lvls, var_stack, name, ls) ==
    IF name.panic THEN HelpPanic(name.s, var_stack, {})
    ELSE IF Len(lvls) = 0 THEN HelpDone(eidx, var_stack, var_stack, name.s, <<>>, {})
    ELSE IF ls.panic THEN HelpPanic(ls.s, var_stack, {})
    ELSE HelpDone(eidx, var_stack, var_stack, name.s \o ".{" \o Join(ls.items, ",") \o "}", <<>>, {})

expr_to_string_help(env, eidx, var_stack) ==
    IF ~contains_key(env.exprs, eidx) THEN HelpPanic("Expr not found", var_stack, {})
    ELSE LET expr == env.exprs[eidx] IN
      CASE expr.kind = "Sort" -> sort_to_string(eidx, var_stack, level_to_string(env, expr.n))
        [] expr.kind = "BoundVar" ->
             HelpDone(eidx, var_stack, var_stack, bound_var_to_string(expr.n, var_stack), <<>>, {})
        [] expr.kind \in {"Pi", "Lambda"} -> pi_or_lambda_to_string(env, eidx, var_stack)
        [] expr.kind = "Constant" ->
             constant_to_string(eidx, expr.lvls, var_stack, name_to_string(env, expr.n), levels_to_strings(env, expr.lvls))
        [] expr.kind = "FunAppl" ->
             funappl_to_string(env, eidx, expr, var_stack, expr_to_string_help(env, expr.a, var_stack))

\* assert!(var_stack.is_empty()) on what expr_to_string_help returned.
assert_is_empty(r) ==
    IF r.panic THEN [panic |-> TRUE, s |-> r.s, tr |-> r.tr]
    ELSE IF Len(r.st) # 0 THEN [panic |-> TRUE, s |-> "assertion failed: var_stack.is_empty()", tr |-> r.tr]
    ELSE [panic |-> FALSE, s |-> r.s, tr |-> r.tr]

\* expr_to_string: a fresh empty stack, and the assert that it is empty again.
expr_to_string(env, eidx) == assert_is_empty(expr_to_string_help(env, eidx, <<>>))

\* level_name_idxs.iter().map(name_to_string).collect(): the strings, or a panic.
RECURSIVE names_to_strings(_, _)
names_to_strings(env, nidxs) ==
    IF Len(nidxs) = 0 THEN [panic |-> FALSE, s |-> "", items |-> <<>>]
    ELSE LET r == name_to_string(env, Head(nidxs)) IN
         IF r.panic THEN [panic |-> TRUE, s |-> r.s, items |-> <<>>]
         ELSE LET rs == names_to_strings(env, Tail(nidxs))
              IN IF rs.panic THEN rs ELSE [panic |-> FALSE, s |-> "", items |-> <<r.s>> \o rs.items]

\* The format! of def_to_string on its three parts, each computed (and
\* panicking) in the order the code computes them: lns, type_expr, body_expr.
def_format(name, lns, type_expr, body_expr) ==
    IF lns.panic THEN [panic |-> TRUE, s |-> lns.s, tr |-> {}] ELSE
    LET level_names == Join(lns.items, ",")
        level_names_fmt == IF level_names = "" THEN "" ELSE ".{" \o level_names \o "}" IN
    IF type_expr.panic THEN type_expr ELSE
    IF body_expr.panic THEN [panic |-> TRUE, s |-> body_expr.s, tr |-> type_expr.tr \cup body_expr.tr]
    ELSE [panic |-> FALSE, s |-> "definition " \o name \o level_names_fmt \o " " \o type_expr.s \o " := " \o body_expr.s, tr |-> type_expr.tr \cup body_expr.tr]

def_to_string(env, name, eidx1, eidx2, level_name_idxs) ==
    def_format(name, names_to_strings(env, level_name_idxs), expr_to_string(env, eidx1), expr_to_string(env, eidx2))

\* format!("\n| {} : {}", n, e) for one intro, before those of the later
\* intros rs; n, e and rs are computed (and panic) in that order.
intro_format(n, e, rs) ==
    IF n.panic THEN [panic |-> TRUE, s |-> n.s, items |-> <<>>, tr |-> {}] ELSE
    IF e.panic THEN [panic |-> TRUE, s |-> e.s, items |-> <<>>, tr |-> e.tr] ELSE
    IF rs.panic THEN [rs EXCEPT !.tr = @ \cup e.tr]
    ELSE [panic |-> FALSE, s |-> "", items |-> <<"\n| " \o n.s \o " : " \o e.s>> \o rs.items, tr |-> e.tr \cup rs.tr]

\* intros.iter().map(|(ni, ei)| format!("\n| {} : {}", ...)).collect()
RECURSIVE intros_to_strings(_, _)
intros_to_strings(env, intros) ==
    IF Len(intros) = 0 THEN [panic |-> FALSE, s |-> "", items |-> <<>>, tr |-> {}]
    ELSE intro_format(name_to_string(env, Head(intros)[1]), expr_to_string(env, Head(intros)[2]), intros_to_strings(env, Tail(intros)))

\* The format! of ind_to_string on its three parts, each computed (and
\* panicking) in the order the code computes them: type_expr, lns, is.
ind_format(name, type_expr, lns, is) ==
    IF type_expr.panic THEN type_expr ELSE
    IF lns.panic THEN [panic |-> TRUE, s |-> lns.s, tr |-> type_expr.tr] ELSE
    LET level_names == Join(lns.items, ",")
        level_names_fmt == IF level_names = "" THEN "" ELSE " {" \o level_names \o "}" IN
    IF is.panic THEN [panic |-> TRUE, s |-> is.s, tr |-> type_expr.tr \cup is.tr]
    ELSE [panic |-> FALSE, s |-> "inductive " \o name \o level_names_fmt \o " " \o type_expr.s \o Join(is.items, " "), tr |-> type_expr.tr \cup is.tr]

ind_to_string(env, name, eidx, intros, level_name_idxs) ==
    ind_format(name, expr_to_string(env, eidx), names_to_strings(env, level_name_idxs), intros_to_strings(env, intros))

decl_to_string(env, nidx) ==
    IF ~contains_key(env.decls, nidx) THEN [panic |-> TRUE, s |-> "Declaration not found", tr |-> {}]
    ELSE LET decl == env.decls[nidx]
             name == name_to_string(env, nidx)
         IN IF name.panic THEN [panic |-> TRUE, s |-> name.s, tr |-> {}]
            ELSE IF decl.kind = "Def" THEN def_to_string(env, name.s, decl.ty, decl.body, decl.level_names)
            ELSE ind_to_string(env, name.s, decl.ty, decl.intros, decl.level_names)

-----------------------------------------------------------------------------
(* The line parser: parser.rs                                              *)

\* What handling one line comes to: Ok(()), Err(LineError) or a panic; with
\* the tables as it leaves them, the text printed and the render calls made.
LineOk(env, text, tr) == [res |-> "Ok", msg |-> "", env |-> env, out |-> text, calls |-> tr]
LineErr(env, msg) == [res |-> "Err", msg |-> msg, env |-> env, out |-> "", calls |-> {}]
LinePanic(env, msg, tr) == [res |-> "Panic", msg |-> msg, env |-> env, out |-> "", calls |-> tr]

\* str::parse::<usize> on the tokens the input is drawn from (one character
\* long at most where numeric): a token parses exactly when it is the decimal
\* form of a number.
UsizeToks == {ToString(i) : i \in 0..9}
UsizeOf == [t \in UsizeToks |-> CHOOSE i \in 0..9 : ToString(i) = t]
is_usize(t) == t \in UsizeToks
to_usize(t) == UsizeOf[t]

parse_info_annotation(t) ==
    CASE t = "#BD" -> [ok |-> TRUE, info |-> "Default"]
      [] t = "#BI" -> [ok |-> TRUE, info |-> "Implicit"]
      [] t = "#BS" -> [ok |-> TRUE, info |-> "StrictImplicit"]
      [] t = "#BC" -> [ok |-> TRUE, info |-> "InstImplicit"]
      [] OTHER -> [ok |-> FALSE, info |-> ""]

\* next: the first token of what is left of the line, and the rest after it.
next(s) ==
    IF Len(s) = 0 THEN [some |-> FALSE, t |-> "", rest |-> <<>>]
    ELSE [some |-> TRUE, t |-> Head(s), rest |-> Tail(s)]

\* next_idx: None when there is no token or the token is not a usize.
next_idx(s) ==
    LET n == next(s)
    IN IF n.some /\ is_usize(n.t) THEN [some |-> TRUE, i |-> to_usize(n.t), rest |-> n.rest]
       ELSE [some |-> FALSE, i |-> 0, rest |-> s]

\* check_eol: TRUE for Ok(()), FALSE for Err("Expecting EOL").
check_eol_lenient(s) == TRUE
check_eol(s) == ~next(s).some

\* while let Some((ni, r)) = next_idx(rest) { push(ni); rest = r }
RECURSIVE take_idxs(_)
take_idxs(s) ==
    LET n == next_idx(s)
    IN IF ~n.some THEN [list |-> <<>>, rest |-> s]
       ELSE LET r == take_idxs(n.rest) IN [list |-> <<n.i>> \o r.list, rest |-> r.rest]

take_intros_uncounted(num_intros, s) == [ok |-> TRUE, intros |-> <<>>, rest |-> s]

\* for _ in 0..num_intros { two next_idx, each `?` }
RECURSIVE take_intros(_, _)
take_intros(num_intros, s) ==
    IF num_intros = 0 THEN [ok |-> TRUE, intros |-> <<>>, rest |-> s]
    ELSE LET n == next_idx(s) IN
         IF ~n.some THEN [ok |-> FALSE, intros |-> <<>>, rest |-> s] ELSE
         LET e == next_idx(n.rest) IN
         IF ~e.some THEN [ok |-> FALSE, intros |-> <<>>, rest |-> s] ELSE
         LET r == take_intros(num_intros - 1, e.rest)
         IN [ok |-> r.ok, intros |-> <<<<n.i, e.i>>>> \o r.intros, rest |-> r.rest]

\* println!("{} {}: {}", kind, idx, d) of a post_add_*, d being what the
\* *_to_string call came to: the line printed, or the panic of that call.
println(env, kind, idx, d) ==
    IF d.panic THEN LinePanic(env, d.s, d.tr)
    ELSE LineOk(env, kind \o ToString(idx) \o ": " \o d.s, d.tr)

\* The add_* call of a handler followed by its post_add_* println.
post_add_name(r, idx) ==
    IF r.panic THEN LinePanic(r.env, r.msg, {}) ELSE
    LET n == name_to_string(r.env, idx)
    IN IF n.panic THEN LinePanic(r.env, n.s, {})
       ELSE LineOk(r.env, "Name " \o ToString(idx) \o ": " \o n.s, {})

post_add_level(r, idx) ==
    IF r.panic THEN LinePanic(r.env, r.msg, {}) ELSE
    LET u == level_to_string(r.env, idx)
    IN IF u.panic THEN LinePanic(r.env, u.s, {})
       ELSE LineOk(r.env, "Level " \o ToString(idx) \o ": " \o u.s, {})

post_add_expr(r, idx) ==
    IF r.panic THEN LinePanic(r.env, r.msg, {})
    ELSE println(r.env, "Expr ", idx, expr_to_string(r.env, idx))

post_add_declaration(r, idx) ==
    IF r.panic THEN LinePanic(r.env, r.msg, {})
    ELSE println(r.env, "Declaration ", idx, decl_to_string(r.env, idx))

parse_ni(env, idx, s) ==
    LET p == next_idx(s) IN
    IF ~p.some THEN LineErr(env, "Expecting index") ELSE
    LET i == next_idx(p.rest) IN
    IF ~i.some THEN LineErr(env, "Expecting integer") ELSE
    IF ~check_eol(i.rest) THEN LineErr(env, "Expecting EOL")
    ELSE post_add_name(add_name(env, idx, ItemInt(i.i), p.i), idx)

parse_ns(env, idx, s) ==
    LET p == next_idx(s) IN
    IF ~p.some THEN LineErr(env, "Expecting index") ELSE
    LET t == next(p.rest) IN
    IF ~t.some THEN LineErr(env, "Expecting identifier") ELSE
    IF ~check_eol(t.rest) THEN LineErr(env, "Expecting EOL")
    ELSE post_add_name(add_name(env, idx, ItemStr(t.t), p.i), idx)

parse_us(env, idx, s) ==
    LET u == next_idx(s) IN
    IF ~u.some THEN LineErr(env, "Expecting index") ELSE
    IF ~check_eol(u.rest) THEN LineErr(env, "Expecting EOL")
    ELSE post_add_level(add_level_succ(env, idx, u.i), idx)

parse_um(env, idx, s) ==
    LET u1 == next_idx(s) IN
    IF ~u1.some THEN LineErr(env, "Expecting index") ELSE
    LET u2 == next_idx(u1.rest) IN
    IF ~u2.some THEN LineErr(env, "Expecting index") ELSE
    IF ~check_eol(u2.rest) THEN LineErr(env, "Expecting EOL")
    ELSE post_add_level(add_level_max(env, idx, u1.i, u2.i), idx)

parse_uim(env, idx, s) ==
    LET u1 == next_idx(s) IN
    IF ~u1.some THEN LineErr(env, "Expecting index") ELSE
    LET u2 == next_idx(u1.rest) IN
    IF ~u2.some THEN LineErr(env, "Expecting index") ELSE
    IF ~check_eol(u2.rest) THEN LineErr(env, "Expecting EOL")
    ELSE post_add_level(add_level_imax(env, idx, u1.i, u2.i), idx)

parse_up(env, idx, s) ==
    LET n == next_idx(s) IN
    IF ~n.some THEN LineErr(env, "Expecting index") ELSE
    IF ~check_eol(n.rest) THEN LineErr(env, "Expecting EOL")
    ELSE post_add_level(add_level_param(env, idx, n.i), idx)

parse_es(env, idx, s) ==
    LET u == next_idx(s) IN
    IF ~u.some THEN LineErr(env, "Expecting index") ELSE
    IF ~check_eol(u.rest) THEN LineErr(env, "Expecting EOL")
    ELSE post_add_expr(add_expr_sort(env, idx, u.i), idx)

parse_ev(env, idx, s) ==
    LET i == next_idx(s) IN
    IF ~i.some THEN LineErr(env, "Expecting integer") ELSE
    IF ~check_eol(i.rest) THEN LineErr(env, "Expecting EOL")
    ELSE post_add_expr(add_expr_bound_var(env, idx, i.i), idx)

parse_ep(env, idx, s) ==
    LET t == next(s) IN
    IF ~t.some THEN LineErr(env, "Expecting info") ELSE
    LET info == parse_info_annotation(t.t) IN
    IF ~info.ok THEN LineErr(env, "Expecting info tag") ELSE
    LET nidx == next_idx(t.rest) IN
    IF ~nidx.some THEN LineErr(env, "Expecting index") ELSE
    LET eidx1 == next_idx(nidx.rest) IN
    IF ~eidx1.some THEN LineErr(env, "Expecting index") ELSE
    LET eidx2 == next_idx(eidx1.rest) IN
    IF ~eidx2.some THEN LineErr(env, "Expecting index") ELSE
    IF ~check_eol(eidx2.rest) THEN LineErr(env, "Expecting EOL")
    ELSE post_add_expr(add_expr_pi(env, idx, info.info, nidx.i, eidx1.i, eidx2.i), idx)

parse_el(env, idx, s) ==
    LET t == next(s) IN
    IF ~t.some THEN LineErr(env, "Expecting info") ELSE
    LET info == parse_info_annotation(t.t) IN
    IF ~info.ok THEN LineErr(env, "Expecting info tag") ELSE
    LET nidx == next_idx(t.rest) IN
    IF ~nidx.some THEN LineErr(env, "Expecting index") ELSE
    LET eidx1 == next_idx(nidx.rest) IN
    IF ~eidx1.some THEN LineErr(env, "Expecting index") ELSE
    LET eidx2 == next_idx(eidx1.rest) IN
    IF ~eidx2.some THEN LineErr(env, "Expecting index") ELSE
    IF ~check_eol(eidx2.rest) THEN LineErr(env, "Expecting EOL")
    ELSE post_add_expr(add_expr_lambda(env, idx, info.info, nidx.i, eidx1.i, eidx2.i), idx)

parse_ec(env, idx, s) ==
    LET nidx == next_idx(s) IN
    IF ~nidx.some THEN LineErr(env, "Expecting index") ELSE
    LET level_idxs == take_idxs(nidx.rest) IN
    IF ~check_eol(level_idxs.rest) THEN LineErr(env, "Expecting EOL")
    ELSE post_add_expr(add_expr_constant(env, idx, nidx.i, level_idxs.list), idx)

parse_ea(env, idx, s) ==
    LET eidx1 == next_idx(s) IN
    IF ~eidx1.some THEN LineErr(env, "Expecting index") ELSE
    LET eidx2 == next_idx(eidx1.rest) IN
    IF ~eidx2.some THEN LineErr(env, "Expecting index") ELSE
    IF ~check_eol(eidx2.rest) THEN LineErr(env, "Expecting EOL")
    ELSE post_add_expr(add_expr_funappl(env, idx, eidx1.i, eidx2.i), idx)

parse_def(env, s) ==
    LET nidx == next_idx(s) IN
    IF ~nidx.some THEN LineErr(env, "Expecting index") ELSE
    LET eidx1 == next_idx(nidx.rest) IN
    IF ~eidx1.some THEN LineErr(env, "Expecting index") ELSE
    LET eidx2 == next_idx(eidx1.rest) IN
    IF ~eidx2.some THEN LineErr(env, "Expecting index") ELSE
    LET level_nidxs == take_idxs(eidx2.rest) IN
    IF ~check_eol(level_nidxs.rest) THEN LineErr(env, "Expecting EOL")
    ELSE post_add_declaration(add_definition(env, nidx.i, eidx1.i, eidx2.i, level_nidxs.list), nidx.i)

parse_ind(env, s) ==
    LET num == next_idx(s) IN
    IF ~num.some THEN LineErr(env, "Expecting number") ELSE
    LET nidx == next_idx(num.rest) IN
    IF ~nidx.some THEN LineErr(env, "Expecting index") ELSE
    LET eidx == next_idx(nidx.rest) IN
    IF ~eidx.some THEN LineErr(env, "Expecting index") ELSE
    LET num_intros == next_idx(eidx.rest) IN
    IF ~num_intros.some THEN LineErr(env, "Expecting number") ELSE
    LET intros == take_intros(num_intros.i, num_intros.rest) IN
    IF ~intros.ok THEN LineErr(env, "Expecting index") ELSE
    LET level_nidxs == take_idxs(intros.rest) IN
    IF ~check_eol(level_nidxs.rest) THEN LineErr(env, "Expecting EOL")
    ELSE post_add_declaration(add_inductive(env, num.i, nidx.i, eidx.i, intros.intros, level_nidxs.list), nidx.i)

\* The tags whose arm is todo!(...).
TodoIndexTags == {"#EJ", "#ELN", "#ELS", "#EZ"}
TodoTags == {"#AX", "#QUOT", "#PREFIX", "#POSTFIX", "#INFIX"}

parse_index_command(env, idx, s) ==
    LET c == next(s) IN
    IF ~c.some THEN LineErr(env, "Expecting index command") ELSE
    CASE c.t = "#NI" -> parse_ni(env, idx, c.rest)
      [] c.t = "#NS" -> parse_ns(env, idx, c.rest)
      [] c.t = "#US" -> parse_us(env, idx, c.rest)
      [] c.t = "#UM" -> parse_um(env, idx, c.rest)
      [] c.t = "#UIM" -> parse_uim(env, idx, c.rest)
      [] c.t = "#UP" -> parse_up(env, idx, c.rest)
      [] c.t = "#ES" -> parse_es(env, idx, c.rest)
      [] c.t = "#EV" -> parse_ev(env, idx, c.rest)
      [] c.t = "#EP" -> parse_ep(env, idx, c.rest)
      [] c.t = "#EL" -> parse_el(env, idx, c.rest)
      [] c.t = "#EC" -> parse_ec(env, idx, c.rest)
      [] c.t = "#EA" -> parse_ea(env, idx, c.rest)
      [] c.t \in TodoIndexTags -> LinePanic(env, "not yet implemented: " \o c.t, {})
      [] OTHER -> LineErr(env, "Unsupported index command")

parse_command(env, cmd, rest) ==
    CASE cmd = "#DEF" -> parse_def(env, rest)
      [] cmd = "#IND" -> parse_ind(env, rest)
      [] cmd \in TodoTags -> LinePanic(env, "not yet implemented: " \o cmd, {})
      [] OTHER -> LineErr(env, "Unsupported command")

parse_line(env, l) ==
    LET first == next(l) IN
    IF ~first.some THEN LineErr(env, "Expecting index or command")
    ELSE IF is_usize(first.t) THEN parse_index_command(env, to_usize(first.t), first.rest)
    ELSE parse_command(env, first.t, first.rest)

-----------------------------------------------------------------------------
(* The input: the lines the run may read                                   *)

\* The index and integer tokens of the input.
IdxToks == {"0", "1"}
\* A token that is no usize, no tag and no info annotation.
Junk == "x"
InfoToks == {"#BD", "#BS"}

\* The sequences over S of length at most n.
RECURSIVE Lists(_, _)
Lists(S, n) == IF n = 0 THEN {<<>>} ELSE Lists(S, n - 1) \cup {<<t>> \o r : t \in S, r \in {q \in Lists(S, n - 1) : Len(q) = n - 1}}

\* The argument lists that fit each tag's grammar.
ArgsNS == {<<p, Junk>> : p \in IdxToks}
ArgsNI == {<<p, "1">> : p \in IdxToks}
ArgsOne == {<<a>> : a \in IdxToks}
ArgsTwo == {<<a, b>> : a \in IdxToks, b \in IdxToks}
ArgsBinder == {<<i, n, a, b>> : i \in InfoToks, n \in IdxToks, a \in IdxToks, b \in IdxToks}
ArgsConstant == {<<n>> \o ls : n \in IdxToks, ls \in Lists(IdxToks, MaxList)}
ArgsDef == {<<n, a, b>> \o ls : n \in IdxToks, a \in IdxToks, b \in IdxToks, ls \in Lists(IdxToks, MaxList)}
ArgsInd == {<<"0", n, e, "0">> \o ls : n \in IdxToks, e \in IdxToks, ls \in Lists(IdxToks, MaxList)}
             \cup {<<"0", n, e, "1", cn, ce>> \o ls : n \in IdxToks, e \in IdxToks, cn \in IdxToks, ce \in IdxToks, ls \in Lists(IdxToks, MaxList)}

\* A well-formed argument list, cut short, or followed by one more token.
Variants(a, extras) == {SubSeq(a, 1, k) : k \in 0..Len(a)} \cup {a \o <<t>> : t \in extras}

\* The extra token after a fixed-arity grammar, and after an integer suffix.
ExtraFixed == {Junk, "0"}
ExtraSuffix == {Junk}

IndexLines(tag, args, extras) == {<<i, tag>> \o v : i \in IdxToks, v \in UNION {Variants(a, extras) : a \in args}}
CommandLines(tag, args, extras) == {<<tag>> \o v : v \in UNION {Variants(a, extras) : a \in args}}

LinesNI == IndexLines("#NI", ArgsNI, ExtraFixed)
LinesNS == IndexLines("#NS", ArgsNS, ExtraFixed)
LinesUS == IndexLines("#US", ArgsOne, ExtraFixed)
LinesUM == IndexLines("#UM", ArgsTwo, ExtraFixed)
LinesUIM == IndexLines("#UIM", ArgsTwo, ExtraFixed)
LinesUP == IndexLines("#UP", ArgsOne, ExtraFixed)
LinesES == IndexLines("#ES", ArgsOne, ExtraFixed)
LinesEV == IndexLines("#EV", ArgsOne, ExtraFixed)
LinesEP == IndexLines("#EP", ArgsBinder, ExtraFixed)
LinesEL == IndexLines("#EL", ArgsBinder, ExtraFixed)
LinesEC == IndexLines("#EC", ArgsConstant, ExtraSuffix)
LinesEA == IndexLines("#EA", ArgsTwo, ExtraFixed)
LinesDEF == CommandLines("#DEF", ArgsDef, ExtraSuffix)
LinesIND == CommandLines("#IND", ArgsInd, ExtraSuffix)
LinesTodo == {<<i, t>> : i \in IdxToks, t \in TodoIndexTags} \cup {<<t>> : t \in TodoTags}
LinesOther == {<<>>, <<Junk>>, <<"#BD">>} \cup {<<i>> : i \in IdxToks} \cup {<<i, Junk>> : i \in IdxToks} \cup {<<i, "#DEF">> : i \in IdxToks}

-----------------------------------------------------------------------------
(* The run: parse_lines                                                    *)

NoError == [line_no |-> 0, msg |-> ""]

Init ==
    /\ names = NewEnvironment.names
    /\ levels = NewEnvironment.levels
    /\ exprs = NewEnvironment.exprs
    /\ decls = NewEnvironment.decls
    /\ line_no = 1
    /\ result = "running"
    /\ error = NoError
    /\ line = <<>>
    /\ prev = NewEnvironment
    /\ out = ""
    /\ calls = {}

\* The for loop of parse_lines is still running, and has input left to read.
Reading(max) == result = "running" /\ line_no <= max

\* One turn of the for loop of parse_lines on line l: parse_line, then either
\* line_no += 1, or the ParseError with line_no that ends the run.  A panic
\* ends the run with the panic's message alone: no ParseError is built, so no
\* line number is carried (line_no 0 in error).
ReadLine(l) ==
    /\ \E r \in {parse_line(Env, l)} :
        /\ names' = r.env.names
        /\ levels' = r.env.levels
        /\ exprs' = r.env.exprs
        /\ decls' = r.env.decls
        /\ out' = r.out
        /\ calls' = r.calls
        /\ result' = (CASE r.res = "Ok" -> "running" [] r.res = "Err" -> "error" [] r.res = "Panic" -> "panic")
        /\ error' = (CASE r.res = "Ok" -> NoError
                       [] r.res = "Err" -> [line_no |-> line_no, msg |-> r.msg]
                       [] r.res = "Panic" -> [line_no |-> 0, msg |-> r.msg])
        /\ line_no' = IF r.res = "Ok" THEN line_no + 1 ELSE line_no
    /\ line' = l
    /\ prev' = Env

ParseNI == Reading(MaxLines) /\ \E l \in LinesNI : ReadLine(l)
ParseNS == Reading(MaxLines) /\ \E l \in LinesNS : ReadLine(l)
ParseUS == Reading(MaxLines) /\ \E l \in LinesUS : ReadLine(l)
ParseUM == Reading(MaxLines) /\ \E l \in LinesUM : ReadLine(l)
ParseUIM == Reading(MaxLines) /\ \E l \in LinesUIM : ReadLine(l)
ParseUP == Reading(MaxLines) /\ \E l \in LinesUP : ReadLine(l)
ParseES == Reading(MaxLines) /\ \E l \in LinesES : ReadLine(l)
ParseEV == Reading(MaxLines) /\ \E l \in LinesEV : ReadLine(l)
ParseEP == Reading(MaxLines) /\ \E l \in LinesEP : ReadLine(l)
ParseEL == Reading(MaxLines) /\ \E l \in LinesEL : ReadLine(l)
ParseEC == Reading(MaxLines) /\ \E l \in LinesEC : ReadLine(l)
ParseEA == Reading(MaxLines) /\ \E l \in LinesEA : ReadLine(l)
ParseDEF == Reading(MaxLines) /\ \E l \in LinesDEF : ReadLine(l)
ParseIND == Reading(MaxLines) /\ \E l \in LinesIND : ReadLine(l)
ParseTodo == Reading(MaxLines) /\ \E l \in LinesTodo : ReadLine(l)
ParseOther == Reading(MaxLines) /\ \E l \in LinesOther : ReadLine(l)

\* reader.lines() is exhausted: Ok(parser.get_environment()).
EndOfInput ==
    /\ result = "running"
    /\ result' = "ok"
    /\ line' = <<>>
    /\ prev' = Env
    /\ out' = ""
    /\ calls' = {}
    /\ UNCHANGED <<names, levels, exprs, decls, line_no, error>>

Next ==
    \/ ParseNI \/ ParseNS
    \/ ParseUS \/ ParseUM \/ ParseUIM \/ ParseUP
    \/ ParseES \/ ParseEV \/ ParseEP \/ ParseEL \/ ParseEC \/ ParseEA
    \/ ParseDEF \/ ParseIND
    \/ ParseTodo \/ ParseOther
    \/ EndOfInput

Spec == Init /\ [][Next]_vars

-----------------------------------------------------------------------------
(* The same run on inputs that build names and binder-nested expressions:  *)
(* every line fits its grammar, and the run is long enough to nest binders *)
(* under two distinct names.                                               *)

\* Largest number of lines read in a run of SpecRender.
MaxRenderLines == 5

NameToks == {"1", "2"}
ExprToks == {"0", "1", "2"}
VarToks == {"0", "1", "2"}

RLinesNS == {<<"1", "#NS", "0", "a">>} \cup {<<"2", "#NS", p, "b">> : p \in {"0", "1"}}
RLinesEV == {<<i, "#EV", v>> : i \in ExprToks, v \in VarToks}
RLinesEL == {<<i, "#EL", "#BD", n, a, b>> : i \in ExprToks, n \in NameToks, a \in ExprToks, b \in ExprToks}
RLinesEP == {<<i, "#EP", "#BI", n, "0", b>> : i \in ExprToks, n \in NameToks, b \in ExprToks}
RLinesEA == {<<i, "#EA", a, "0">> : i \in ExprToks, a \in ExprToks}

RenderNS == Reading(MaxRenderLines) /\ \E l \in RLinesNS : ReadLine(l)
RenderEV == Reading(MaxRenderLines) /\ \E l \in RLinesEV : ReadLine(l)
RenderEL == Reading(MaxRenderLines) /\ \E l \in RLinesEL : ReadLine(l)
RenderEP == Reading(MaxRenderLines) /\ \E l \in RLinesEP : ReadLine(l)
RenderEA == Reading(MaxRenderLines) /\ \E l \in RLinesEA : ReadLine(l)

NextRender == RenderNS \/ RenderEV \/ RenderEL \/ RenderEP \/ RenderEA \/ EndOfInput

SpecRender == Init /\ [][NextRender]_vars

-----------------------------------------------------------------------------
(* The same run on inputs that declare inductives: two names and two       *)
(* expressions to refer to, then #IND lines with 0, 1 or 2 constructors,   *)
(* whole or cut short inside the constructor pairs.                        *)

\* Largest number of lines read in a run of SpecInd.
MaxIndLines == 5

IndToks == {"1", "2"}
CountToks == {"0", "1", "2"}

ILinesNS == {<<"1", "#NS", "0", "a">>, <<"2", "#NS", "1", "b">>}
ILinesES == {<<"1", "#ES", "0">>}
ILinesEV == {<<"2", "#EV", "0">>}
\* #IND <params> <name> <type> <count> <pairs> <level names>: with all the
\* pairs the count announces, with fewer integers than that, and with a token
\* that is no integer where a pair is due.
ILevelNames == {<<>>, <<"2">>, <<"1", "2">>}
IPairInts == {SubSeq(q, 1, k) : q \in {<<"1", "2", "2", "1">>, <<"2", "1", "1", "1">>}, k \in 0..4}
ILinesINDAll == {<<"#IND", "0", n, "1", c>> \o ps \o ls : n \in IndToks, c \in CountToks, ps \in IPairInts, ls \in ILevelNames}
ILinesINDWhole == {l \in ILinesINDAll : Len(l) >= 5 + 2 * to_usize(l[5])}
ILinesINDShort == {l \in ILinesINDAll : Len(l) < 5 + 2 * to_usize(l[5])}
ILinesINDJunk == {l \o <<Junk>> : l \in ILinesINDShort}
ILinesIND == ILinesINDWhole \cup ILinesINDShort \cup ILinesINDJunk

IndNS == Reading(MaxIndLines) /\ \E l \in ILinesNS : ReadLine(l)
IndES == Reading(MaxIndLines) /\ \E l \in ILinesES : ReadLine(l)
IndEV == Reading(MaxIndLines) /\ \E l \in ILinesEV : ReadLine(l)
IndIND == Reading(MaxIndLines) /\ \E l \in ILinesIND : ReadLine(l)

NextInd == IndNS \/ IndES \/ IndEV \/ IndIND \/ EndOfInput

SpecInd == Init /\ [][NextInd]_vars

-----------------------------------------------------------------------------
(* The same run on inputs that build a chain of names with text and        *)
(* integer segments, and levels nested over them.                          *)

\* Largest number of lines read in a run of SpecLevel.
MaxLevelLines == 5

LLinesNS == {<<"1", "#NS", "0", "a">>} \cup {<<"3", "#NS", p, "c">> : p \in {"0", "1", "2"}}
LLinesNI == {<<"2", "#NI", p, "7">> : p \in {"0", "1"}}
LLinesUS == {<<k, "#US", u>> : k \in {"1", "2"}, u \in {"0", "1"}}
LLinesUP == {<<k, "#UP", n>> : k \in {"1", "2"}, n \in {"1", "2"}}
LLinesUM == {<<"3", "#UM", a, b>> : a \in {"0", "1", "2"}, b \in {"0", "1", "2"}}
LLinesUIM == {<<"4", "#UIM", a, b>> : a \in {"1", "2", "3"}, b \in {"1", "2", "3"}}

LevelNS == Reading(MaxLevelLines) /\ \E l \in LLinesNS : ReadLine(l)
LevelNI == Reading(MaxLevelLines) /\ \E l \in LLinesNI : ReadLine(l)
LevelUS == Reading(MaxLevelLines) /\ \E l \in LLinesUS : ReadLine(l)
LevelUP == Reading(MaxLevelLines) /\ \E l \in LLinesUP : ReadLine(l)
LevelUM == Reading(MaxLevelLines) /\ \E l \in LLinesUM : ReadLine(l)
LevelUIM == Reading(MaxLevelLines) /\ \E l \in LLinesUIM : ReadLine(l)

NextLevel == LevelNS \/ LevelNI \/ LevelUS \/ LevelUP \/ LevelUM \/ LevelUIM \/ EndOfInput

SpecLevel == Init /\ [][NextLevel]_vars

-----------------------------------------------------------------------------
(* Reading the last line as the wire format describes it                   *)

U(l, k) == to_usize(l[k])
AllNum(l, a, b) == \A k \in a..b : is_usize(l[k])
Nums(l, a, b) == {U(l, k) : k \in a..b}

NoCall == [table |-> "none", key |-> 0, names |-> {}, levels |-> {}, exprs |-> {}, declared |-> {}]
CallTo(table, key, ns, ls, es) == [table |-> table, key |-> key, names |-> ns, levels |-> ls, exprs |-> es, declared |-> {}]

\* The insertion a line asks for when it fits its tag's grammar exactly: the
\* table and key it targets and the indices it refers to, by table (a parent
\* of 0 is no reference); NoCall when it does not fit.
IndexCallOf(l) ==
    LET tag == l[2]
        key == U(l, 1)
        n == Len(l)
    IN CASE tag = "#NS" /\ n = 4 /\ is_usize(l[3]) -> CallTo("names", key, {U(l, 3)} \ {0}, {}, {})
         [] tag = "#NI" /\ n = 4 /\ AllNum(l, 3, 4) -> CallTo("names", key, {U(l, 3)} \ {0}, {}, {})
         [] tag = "#US" /\ n = 3 /\ AllNum(l, 3, 3) -> CallTo("levels", key, {}, {U(l, 3)}, {})
         [] tag \in {"#UM", "#UIM"} /\ n = 4 /\ AllNum(l, 3, 4) -> CallTo("levels", key, {}, Nums(l, 3, 4), {})
         [] tag = "#UP" /\ n = 3 /\ AllNum(l, 3, 3) -> CallTo("levels", key, {U(l, 3)}, {}, {})
         [] tag = "#ES" /\ n = 3 /\ AllNum(l, 3, 3) -> CallTo("exprs", key, {}, {U(l, 3)}, {})
         [] tag = "#EV" /\ n = 3 /\ AllNum(l, 3, 3) -> CallTo("exprs", key, {}, {}, {})
         [] tag = "#EC" /\ n >= 3 /\ AllNum(l, 3, n) -> CallTo("exprs", key, {U(l, 3)}, Nums(l, 4, n), {})
         [] tag = "#EA" /\ n = 4 /\ AllNum(l, 3, 4) -> CallTo("exprs", key, {}, {}, Nums(l, 3, 4))
         [] tag \in {"#EL", "#EP"} /\ n = 6 /\ l[3] \in {"#BD", "#BI", "#BS", "#BC"} /\ AllNum(l, 4, 6) -> CallTo("exprs", key, {U(l, 4)}, {}, Nums(l, 5, 6))
         [] OTHER -> NoCall

CommandCallOf(l) ==
    LET tag == l[1]
        n == Len(l)
    IN CASE tag = "#DEF" /\ n >= 4 /\ AllNum(l, 2, n) ->
              [CallTo("decls", U(l, 2), Nums(l, 5, n), {}, Nums(l, 3, 4)) EXCEPT !.declared = {U(l, 2)}]
         [] tag = "#IND" /\ n >= 5 /\ AllNum(l, 2, n) /\ n >= 5 + 2 * U(l, 5) ->
              LET c == U(l, 5)
              IN [CallTo("decls", U(l, 3),
                         {U(l, 4 + 2 * j) : j \in 1..c} \cup Nums(l, 6 + 2 * c, n), {},
                         {U(l, 4)} \cup {U(l, 5 + 2 * j) : j \in 1..c}) EXCEPT !.declared = {U(l, 3)}]
         [] OTHER -> NoCall

CallOf(l) ==
    IF Len(l) >= 2 /\ is_usize(l[1]) THEN IndexCallOf(l)
    ELSE IF Len(l) >= 1 /\ ~is_usize(l[1]) THEN CommandCallOf(l)
    ELSE NoCall

TableOf(env, table) ==
    CASE table = "names" -> env.names
      [] table = "levels" -> env.levels
      [] table = "exprs" -> env.exprs
      [] table = "decls" -> env.decls

\* The run ended on the last line read.
Failed == result \in {"error", "panic"}
\* The number of entities the lines have inserted (level 0 is built in).
Inserted(env) == Cardinality(DOMAIN env.names) + Cardinality(DOMAIN env.levels) - 1 + Cardinality(DOMAIN env.exprs) + Cardinality(DOMAIN env.decls)

\* Some index the call refers to is absent from its table.
MissingRef(c, env) ==
    \/ ~(c.names \cup c.declared \subseteq DOMAIN env.names)
    \/ ~(c.levels \subseteq DOMAIN env.levels)
    \/ ~(c.exprs \subseteq DOMAIN env.exprs)

-----------------------------------------------------------------------------
(* Claims                                                                  *)

\* C1: an insertion called with any embedded reference absent from its table
\* (parent, operand level, referenced name, sub-expression, the declared name
\* of a definition or inductive, a constructor name or type, a level-parameter
\* name) fails, and all four tables are as they were before the call.
C1_MissingRefFailsUnchanged ==
    LET c == CallOf(line)
    IN (c.table # "none" /\ MissingRef(c, prev)) => (Failed /\ Env = prev)

Kept(t, t2) == \A k \in DOMAIN t : k \in DOMAIN t2 /\ t2[k] = t[k]

\* C3: the arena only grows: every key present in a table stays present and
\* maps to the identical entity in every later state.
C3_ArenaOnlyGrows == [][Kept(names, names') /\ Kept(levels, levels') /\ Kept(exprs, exprs') /\ Kept(decls, decls')]_vars

\* An entity was inserted and rendered beside older ones in each table.
C3_Witness ==
    /\ result = "running"
    /\ Env # prev
    /\ out # ""
    /\ DOMAIN prev.names # {} /\ DOMAIN prev.exprs # {}
    /\ Inserted(Env) = 3

\* C4: index 0 is never an entity key: names, exprs and decls hold no entry
\* keyed by 0, level 0 is still Zero, and every line that targets 0 is rejected.
C4_ZeroIsNeverAKey ==
    /\ 0 \notin DOMAIN names
    /\ 0 \notin DOMAIN exprs
    /\ 0 \notin DOMAIN decls
    /\ 0 \in DOMAIN levels /\ levels[0] = LevelZero
    /\ (CallOf(line).table # "none" /\ CallOf(line).key = 0) => Failed

\* C5: a line is atomic: it succeeds having inserted its entity, or it fails
\* with all four tables as they were before the line.
C5_LineIsAtomic ==
    /\ Failed => Env = prev
    /\ (result = "running" /\ line_no > 1) => (Env # prev /\ Inserted(Env) = Inserted(prev) + 1)

\* C6: the first failing line stops the run: nothing is read after it, and
\* the arena is the one the lines before it produced (one entity per line).
C6_FirstFailureStops ==
    Failed => /\ ~ENABLED Next
              /\ Env = prev
              /\ Inserted(Env) = line_no - 1

\* C7: every failing line, whatever the kind of error, ends the run with an
\* error result carrying that line's 1-based number and a message.
C7_FailureCarriesLineNo ==
    Failed => /\ result = "error"
              /\ error.line_no = Inserted(prev) + 1
              /\ error.line_no >= 1
              /\ error.msg # ""

\* A line whose grammar is fully consumed by a proper prefix and whose next
\* token the grammar does not take (after an integer suffix: not a usize).
HasSuffix(l) == Len(l) >= 1 /\ (l[1] \in {"#DEF", "#IND"} \/ (Len(l) >= 2 /\ l[2] = "#EC"))
Trailing(l) ==
    \E k \in 1..Len(l) - 1 :
        /\ CallOf(SubSeq(l, 1, k)).table # "none"
        /\ HasSuffix(l) => ~is_usize(l[k + 1])

\* C8: for every supported tag, a line whose grammar is fully consumed and is
\* followed by one more token is rejected with a grammar error and inserts
\* nothing.
C8_TrailingTokenRejected ==
    Trailing(line) => (result = "error" /\ error.msg = "Expecting EOL" /\ error.line_no = line_no /\ Env = prev)

\* An inductive with one constructor and a level parameter, then one token more.
C8_Witness ==
    /\ Trailing(line)
    /\ line[1] = "#IND" /\ Len(line) = 9
    /\ result = "error"
    /\ DOMAIN prev.exprs # {}

\* The recorded call that rendered expression e entered with binder stack st.
CallsOn(e, st) == {c \in calls : c.e = e /\ c.st_in = st}
IsBoundVar(e) == e \in DOMAIN exprs /\ exprs[e].kind = "BoundVar"
IsBinder(e) == e \in DOMAIN exprs /\ exprs[e].kind \in {"Lambda", "Pi"}

\* C9: a BoundVar(i) reached under a binder stack of length d renders as the
\* name of the i-th most recently pushed binder when i < d and as "<i>" when
\* i >= d; rendering it never fails and leaves the stack as it was.
C9_BoundVarResolution ==
    /\ \A c \in calls : IsBoundVar(c.e) =>
         LET i == exprs[c.e].n
             d == Len(c.st_in)
         IN /\ i < d => c.s = Reverse(c.st_in)[i + 1]
            /\ i >= d => c.s = "<" \o ToString(i) \o ">"
            /\ c.st_out = c.st_in
    /\ \A c \in calls : \A k \in 1..Len(c.kids) :
         IsBoundVar(c.kids[k][1]) => CallsOn(c.kids[k][1], c.kids[k][2]) # {}
    /\ (CallOf(line).table = "exprs" /\ Len(line) >= 2 /\ line[2] = "#EV" /\ Env # prev) => result = "running"

\* Under two binders of different names, index 1 resolved to the outer name;
\* and an index at least the depth rendered as a placeholder under a binder.
C9_Witness ==
    /\ \E c \in calls : /\ IsBoundVar(c.e) /\ exprs[c.e].n = 1
                        /\ Len(c.st_in) = 2 /\ c.st_in[1] # c.st_in[2]
                        /\ c.s = c.st_in[1]
    /\ \E c \in calls : /\ IsBoundVar(c.e) /\ Len(c.st_in) = 1
                        /\ exprs[c.e].n >= 1
                        /\ c.s = "<" \o ToString(exprs[c.e].n) \o ">"

\* C10: binder push/pop balances: every render call returns with the stack
\* it was entered with; a Lambda or Pi renders its domain under the stack on
\* entry and its body under that stack extended by the binder's rendered
\* name; so a top-level render ends with an empty stack and its assertion
\* never fails.
C10_PushPopBalance ==
    /\ \A c \in calls : c.st_out = c.st_in
    /\ \A c \in calls : IsBinder(c.e) =>
         /\ c.kids = <<<<exprs[c.e].a, c.st_in>>, <<exprs[c.e].b, Append(c.st_in, name_to_string(Env, exprs[c.e].n).s)>>>>
         /\ \A k \in 1..2 : CallsOn(c.kids[k][1], c.kids[k][2]) # {}
    /\ (CallOf(line).table = "exprs" /\ Env # prev) =>
         /\ result = "running"
         /\ \E c \in CallsOn(CallOf(line).key, <<>>) : c.st_out = <<>>
    /\ error.msg # "assertion failed: var_stack.is_empty()"

\* A binder whose body is a binder was rendered from the top: its body was
\* entered under one name and the inner body under two.
C10_Witness ==
    \E c \in CallsOn(CallOf(line).key, <<>>) :
        /\ IsBinder(c.e) /\ IsBinder(exprs[c.e].b)
        /\ \E c2 \in calls : c2.e = exprs[c.e].b /\ Len(c2.st_in) = 1 /\ c2.st_out = c2.st_in
        /\ \E c3 \in calls : c3.e = exprs[exprs[c.e].b].b /\ Len(c3.st_in) = 2
        /\ result = "running"

\* The indices the read-side operations are asked about.
ProbeIdxs == {0, 1, 2}

\* C11: each render operation (of a name, a level, an expression, a
\* declaration) fails with a not-found outcome whenever the index it is given
\* is absent from its table, in every arena state and for every absent index,
\* index 0 of the names table included.
C11_AbsentIndexNotFound ==
    \A idx \in ProbeIdxs :
        /\ idx \notin DOMAIN names => name_to_string(Env, idx) = [panic |-> TRUE, s |-> "Name not found"]
        /\ idx \notin DOMAIN levels => level_to_string(Env, idx) = [panic |-> TRUE, s |-> "Univ not found"]
        /\ idx \notin DOMAIN exprs => (expr_to_string(Env, idx).panic /\ expr_to_string(Env, idx).s = "Expr not found")
        /\ idx \notin DOMAIN decls => (decl_to_string(Env, idx).panic /\ decl_to_string(Env, idx).s = "Declaration not found")

\* C14: in every arena state reached by successful insertions, rendering any
\* stored entity (any key present in names, levels, exprs or decls) ends
\* without looking up an absent index; and the render that follows the
\* successful insertion of a definition or inductive never fails.
C14_StoredEntitiesRender ==
    /\ \A k \in DOMAIN names : ~name_to_string(Env, k).panic
    /\ \A k \in DOMAIN levels : ~level_to_string(Env, k).panic
    /\ \A k \in DOMAIN exprs : ~expr_to_string(Env, k).panic
    /\ \A k \in DOMAIN decls : ~decl_to_string(Env, k).panic
    /\ (CallOf(line).table = "decls" /\ Env # prev) => result = "running"

\* The line is an #IND line up to and including its constructor count.
IndHead(l) == Len(l) >= 5 /\ l[1] = "#IND" /\ AllNum(l, 2, 5)
\* The number of unsigned integers that follow the count without a gap.
IntsAfterCount(l) == Cardinality({k \in 6..Len(l) : AllNum(l, 6, k)})
\* The inductive the line describes: its first N pairs as constructors, in
\* line order, and all that follows as level-parameter names, in line order.
IndOf(l) ==
    LET N == U(l, 5)
    IN DeclInd(U(l, 2), U(l, 4),
               [j \in 1..N |-> <<U(l, 4 + 2 * j), U(l, 5 + 2 * j)>>],
               [k \in 1..(Len(l) - 5 - 2 * N) |-> U(l, 5 + 2 * N + k)])

\* C15: an #IND line with constructor count N takes exactly the next N
\* (name, expression) integer pairs as its constructors, in line order, and
\* every unsigned integer after them as level-parameter names, in line order;
\* a line with fewer than 2N integers after the count is rejected with a
\* grammar error and inserts nothing.
C15_CountedPairs ==
    IndHead(line) =>
        LET N == U(line, 5)
            ints == IntsAfterCount(line)
        IN /\ ints < 2 * N => (result = "error" /\ error.msg = "Expecting index" /\ error.line_no = line_no /\ Env = prev)
           /\ (ints >= 2 * N /\ ints = Len(line) - 5) => result # "error"
           /\ (ints >= 2 * N /\ Env # prev) =>
                Env = [prev EXCEPT !.decls = insert(@, U(line, 3), IndOf(line))]

\* An inductive with two different constructors and a level parameter was
\* declared and printed.
C15_Witness ==
    /\ IndHead(line) /\ line[5] = "2" /\ Len(line) = 10
    /\ <<line[6], line[7]>> # <<line[8], line[9]>>
    /\ line[6] # line[7]
    /\ result = "running"
    /\ decls[U(line, 3)].intros = <<<<U(line, 6), U(line, 7)>>, <<U(line, 8), U(line, 9)>>>>
    /\ decls[U(line, 3)].level_names = <<U(line, 10)>>
    /\ out # ""

\* The segment of a stored name as it is written: an integer in decimal, a
\* text verbatim.
Segment(k) == IF names[k].item.kind = "Int" THEN ToString(names[k].item.i) ELSE names[k].item.s
\* C12: for a chain of names n1..nk, n1 with parent 0 and each later name
\* parented on the previous, the rendering of nk is the segments of n1..nk
\* joined by "." from root to leaf, integers in decimal and texts verbatim;
\* and the same holds of every prefix of the chain: the rendering of a name
\* is that of its parent, then ".", then its own segment.
C12_NameChainRendering ==
    /\ \A k \in DOMAIN names :
         name_to_string(Env, k) =
           [panic |-> FALSE,
            s |-> IF names[k].parent = 0 THEN Segment(k)
                  ELSE name_to_string(Env, names[k].parent).s \o "." \o Segment(k)]
    /\ (result = "running" /\ CallOf(line).table = "names") =>
         out = "Name " \o line[1] \o ": " \o name_to_string(Env, U(line, 1)).s

\* C13: the rendering of a level is the structural recursion over the stored
\* level: Zero gives "0", Succ(u) "(succ <u>)", Max(a,b) "(max <a> <b>)",
\* IMax(a,b) "(imax <a> <b>)", Param(n) the rendering of the name n, the
\* operands in their stored order; for every level the lines have built.
C13_LevelRendering ==
    /\ \A u \in DOMAIN levels :
         LET v == levels[u]
             R(x) == level_to_string(Env, x).s
         IN level_to_string(Env, u) =
              [panic |-> FALSE,
               s |-> CASE v.kind = "Zero" -> "0"
                       [] v.kind = "Succ" -> "(succ " \o R(v.a) \o ")"
                       [] v.kind = "Max" -> "(max " \o R(v.a) \o " " \o R(v.b) \o ")"
                       [] v.kind = "IMax" -> "(imax " \o R(v.a) \o " " \o R(v.b) \o ")"
                       [] v.kind = "Param" -> name_to_string(Env, v.a).s]
    /\ (result = "running" /\ CallOf(line).table = "levels") =>
         out = "Level " \o line[1] \o ": " \o level_to_string(Env, U(line, 1)).s

\* An IMax over a Max of a Succ and a Param was built and printed.
C13_Witness ==
    /\ result = "running"
    /\ line = <<"4", "#UIM", "3", "2">>
    /\ out = "Level 4: (imax (max (succ 0) a) a)"

====
